---- MODULE Spec2Model ----
(***************************************************************************)
(* Jefferson Bar & Grill API (main.py, schemas.py).                        *)
(*                                                                         *)
(* The state is the shared document store (one sequence of documents per   *)
(* collection, in insertion order), whether the store currently answers,   *)
(* and, for each process instance that imports main.py: its store handle   *)
(* `db`, its position (importing, inside seed_default_content, serving)    *)
(* and the locals of seed_default_content.  `resp` is the response of the  *)
(* last request handled, together with the request it answers.             *)
(*                                                                         *)
(* The store adapter of database.py (create_document, get_documents) is   *)
(* modelled after section 4.1 of the specification (insert / find).        *)
(***************************************************************************)
EXTENDS Integers, Sequences, FiniteSets, TLC

VARIABLES store, storeUp, db, pc, col, idx, seen, seedExit, resp

vars == <<store, storeUp, db, pc, col, idx, seen, seedExit, resp>>

(***************************************************************************)
(* Bounds of the model.                                                    *)
(***************************************************************************)
\* the inquiry collection is capped at this many documents
MaxInquiries == 1
\* explicit limit arguments are drawn from 1..MaxLimit (plus each default)
MaxLimit == 1

\* process instances importing main.py against the same store
SeqInstances == {1}
ConcInstances == {1, 2}

(***************************************************************************)
(* Values.                                                                 *)
(***************************************************************************)
\* Python's None
None == "<None>"
\* a JSON field that the request body does not carry
Absent == "<absent>"

SeedOrder == <<"testimonial", "menuitem", "event", "galleryitem">>
ContentCollections == {SeedOrder[i] : i \in DOMAIN SeedOrder}
Collections == ContentCollections \cup {"inquiry"}
CollectionOrder == SeedOrder \o <<"inquiry">>

Min(a, b) == IF a < b THEN a ELSE b

\* the elements of s at the positions in S, in the order of s
RECURSIVE Pick(_, _, _)
Pick(s, S, i) ==
    IF i > Len(s) THEN << >>
    ELSE (IF i \in S THEN <<s[i]>> ELSE << >>) \o Pick(s, S, i + 1)

(***************************************************************************)
(* Seed documents (seed_default_content).  start_time is the number of     *)
(* days added to the clock reading.                                        *)
(***************************************************************************)
testimonials ==
    << [author |-> "Local Regular",
        quote |-> "Food was great, beer was affordable, and the vibe felt like home.",
        rating |-> 5, source |-> "Google"],
       [author |-> "First-time Visitor",
        quote |-> "Warm staff, great cocktails, and the neighborhood energy is real.",
        rating |-> 5, source |-> "Facebook"] >>

menu_items ==
    << [name |-> "Smash Burger", description |-> "Double patty, melted cheese, house sauce",
        price |-> 12, category |-> "Mains"],
       [name |-> "Wings", description |-> "Crispy wings, choice of sauces",
        price |-> 11, category |-> "Starters"],
       [name |-> "House Old Fashioned", description |-> "Bourbon, bitters, orange twist",
        price |-> 10, category |-> "Cocktails"],
       [name |-> "Holiday Spiced Cider", description |-> "Seasonal, warm and cozy",
        price |-> 8, category |-> "Cocktails", is_seasonal |-> TRUE] >>

events ==
    << [title |-> "Holiday Trivia Night",
        description |-> "Bring your crew for festive trivia and prizes.",
        start_time |-> 3, location |-> "The Jefferson Bar & Grill",
        is_holiday_special |-> TRUE],
       [title |-> "Christmas Eve Dinner Specials",
        description |-> "Limited-run holiday plates and cocktails.",
        start_time |-> 7, location |-> "The Jefferson Bar & Grill",
        is_holiday_special |-> TRUE] >>

gallery ==
    << [title |-> "Warm Lit Bar", image_url |-> "/images/bar-warm.jpg", category |-> "interior"],
       [title |-> "Holiday Lights", image_url |-> "/images/holiday-lights.jpg",
        category |-> "holiday"] >>

SeedDocs(c) ==
    CASE c = "testimonial" -> testimonials
      [] c = "menuitem" -> menu_items
      [] c = "event" -> events
      [] c = "galleryitem" -> gallery

(***************************************************************************)
(* Content created outside this program (section 3: "content entities are  *)
(* seeded once or created externally"): documents of the schemas, already  *)
(* carrying the identifier the store gave them.                            *)
(***************************************************************************)
ExternalDocs(c) ==
    CASE c = "testimonial" ->
           << [_id |-> 1, author |-> "Neighbor", quote |-> "Best patio in town."] >>
      [] c = "menuitem" ->
           << [_id |-> 1, name |-> "Lager", price |-> 5, category |-> "Beer"],
              [_id |-> 2, name |-> "Chef's Whim", price |-> 9, category |-> ""] >>
      [] c = "event" ->
           << [_id |-> 1, title |-> "Open Mic", start_time |-> 1,
               is_holiday_special |-> FALSE],
              [_id |-> 2, title |-> "New Year's Eve Bash", start_time |-> 9,
               is_holiday_special |-> TRUE] >>
      [] c = "galleryitem" ->
           << [_id |-> 1, title |-> "Patio", image_url |-> "/images/patio.jpg"] >>

(***************************************************************************)
(* Document store adapter (database.py; specification section 4.1).        *)
(***************************************************************************)
\* the document as the store keeps it: with the identifier the store assigns
WithId(d, id) ==
    [f \in DOMAIN d \cup {"_id"} |-> IF f = "_id" THEN id ELSE d[f]]

\* insert(collection, document): fails with StoreUnavailable without a live
\* connection, with WriteFailure when the store rejects the write; otherwise
\* appends the document
create_document(handle, up, st, c, d) ==
    IF ~handle THEN [ok |-> FALSE, err |-> "StoreUnavailable", store |-> st]
    ELSE IF ~up THEN [ok |-> FALSE, err |-> "WriteFailure", store |-> st]
    ELSE [ok |-> TRUE, err |-> None,
          store |-> [st EXCEPT ![c] = Append(@, WithId(d, Len(@) + 1))]]

\* every entry of the filter is a field of the document with that value
Matches(d, query) ==
    \A f \in DOMAIN query : f \in DOMAIN d /\ d[f] = query[f]

MatchIdx(docs, query) == {i \in DOMAIN docs : Matches(docs[i], query)}

\* find(collection, filter, limit): the possible results, each holding
\* min(limit, matches) of the matching documents; which of them is the
\* store's choice.  The results are listed in insertion order.
get_documents(st, c, query, limit) ==
    LET m == MatchIdx(st[c], query)
        n == Min(limit, Cardinality(m))
    IN  {Pick(st[c], S, 1) : S \in {T \in SUBSET m : Cardinality(T) = n}}

(***************************************************************************)
(* Seed bootstrapper: seed_default_content, called on import.              *)
(***************************************************************************)
\* count_documents({}) == 0
IsEmptyCount_Always(n) == TRUE
IsEmptyCount(n) == n = 0

\* except Exception: pass -- the import goes on to register the endpoints
AfterSeedException_Propagate == "crashed"
AfterSeedException == "serving"

Procs == ConcInstances
\* what count_documents told the run about each collection: nothing yet,
\* empty, non-empty
NoCounts == [i \in DOMAIN SeedOrder |-> "unchecked"]

\* from database import db: the handle is None when no connection was set up
Boot(p) ==
    /\ pc[p] = "boot"
    /\ \E h \in BOOLEAN : db' = [db EXCEPT ![p] = h]
    /\ pc' = [pc EXCEPT ![p] = "seed"]
    /\ seedExit' = [seedExit EXCEPT ![p] = "running"]
    /\ UNCHANGED <<store, storeUp, col, idx, seen, resp>>

\* if db is None: return
SeedBegin(p) ==
    /\ pc[p] = "seed"
    /\ col[p] = 0
    /\ IF ~db[p]
         THEN /\ pc' = [pc EXCEPT ![p] = "seed_end"]
              /\ seedExit' = [seedExit EXCEPT ![p] = "no_db"]
              /\ UNCHANGED col
         ELSE /\ col' = [col EXCEPT ![p] = 1]
              /\ UNCHANGED <<pc, seedExit>>
    /\ UNCHANGED <<store, storeUp, db, idx, seen, resp>>

\* an exception inside the try block: control is in the except clause
SeedRaise(p) ==
    /\ pc' = [pc EXCEPT ![p] = "except"]
    /\ seedExit' = [seedExit EXCEPT ![p] = "swallowed"]
    /\ UNCHANGED <<col, idx>>

\* on to the next collection's check, or past the last one
SeedAdvance(p) ==
    /\ idx' = [idx EXCEPT ![p] = 0]
    /\ col' = [col EXCEPT ![p] = col[p] + 1]
    /\ IF col[p] = Len(SeedOrder)
         THEN /\ pc' = [pc EXCEPT ![p] = "seed_end"]
              /\ seedExit' = [seedExit EXCEPT ![p] = "done"]
         ELSE UNCHANGED <<pc, seedExit>>

\* if db.<collection>.count_documents({}) == 0:
SeedCheck(p) ==
    /\ pc[p] = "seed"
    /\ col[p] \in DOMAIN SeedOrder
    /\ idx[p] = 0
    /\ IF ~storeUp
         THEN SeedRaise(p) /\ UNCHANGED seen
         ELSE LET n == Len(store[SeedOrder[col[p]]])
              IN  /\ seen' = [seen EXCEPT ![p][col[p]] = IF n = 0 THEN "empty" ELSE "nonempty"]
                  /\ IF IsEmptyCount(n)
                       THEN /\ idx' = [idx EXCEPT ![p] = 1]
                            /\ UNCHANGED <<pc, col, seedExit>>
                       ELSE SeedAdvance(p)
    /\ UNCHANGED <<store, storeUp, db, resp>>

\* for t in <list>: create_document(<collection>, t) -- one iteration
SeedInsert(p) ==
    /\ pc[p] = "seed"
    /\ col[p] \in DOMAIN SeedOrder
    /\ idx[p] >= 1
    /\ LET c == SeedOrder[col[p]]
           r == create_document(db[p], storeUp, store, c, SeedDocs(c)[idx[p]])
       IN  IF ~r.ok
             THEN SeedRaise(p) /\ UNCHANGED store
             ELSE /\ store' = r.store
                  /\ IF idx[p] < Len(SeedDocs(c))
                       THEN /\ idx' = [idx EXCEPT ![p] = idx[p] + 1]
                            /\ UNCHANGED <<pc, col, seedExit>>
                       ELSE SeedAdvance(p)
    /\ UNCHANGED <<storeUp, db, seen, resp>>

\* except Exception: pass
SeedExcept(p) ==
    /\ pc[p] = "except"
    /\ pc' = [pc EXCEPT ![p] = AfterSeedException]
    /\ col' = [col EXCEPT ![p] = 0]
    /\ idx' = [idx EXCEPT ![p] = 0]
    /\ seen' = [seen EXCEPT ![p] = NoCounts]
    /\ UNCHANGED <<store, storeUp, db, seedExit, resp>>

\* seed_default_content returns; the rest of main.py registers the endpoints
SeedReturn(p) ==
    /\ pc[p] = "seed_end"
    /\ pc' = [pc EXCEPT ![p] = "serving"]
    /\ col' = [col EXCEPT ![p] = 0]
    /\ idx' = [idx EXCEPT ![p] = 0]
    /\ seen' = [seen EXCEPT ![p] = NoCounts]
    /\ UNCHANGED <<store, storeUp, db, seedExit, resp>>

\* no response yet
NoResp == [ep |-> "none"]

\* the process is stopped and started again; its last response goes with it
Restart(p) ==
    /\ pc[p] = "serving"
    /\ pc' = [pc EXCEPT ![p] = "boot"]
    /\ db' = [db EXCEPT ![p] = FALSE]
    /\ seedExit' = [seedExit EXCEPT ![p] = "none"]
    /\ resp' = IF resp.ep # "none" /\ resp.p = p THEN NoResp ELSE resp
    /\ UNCHANGED <<store, storeUp, col, idx, seen>>

(***************************************************************************)
(* The store as the environment: it stops and resumes answering.           *)
(***************************************************************************)
StoreOutage ==
    /\ storeUp
    /\ storeUp' = FALSE
    /\ UNCHANGED <<store, db, pc, col, idx, seen, seedExit, resp>>

StoreRecover ==
    /\ ~storeUp
    /\ storeUp' = TRUE
    /\ UNCHANGED <<store, db, pc, col, idx, seen, seedExit, resp>>

(***************************************************************************)
(* Endpoints.  A handler runs in a process that finished importing.        *)
(***************************************************************************)
\* GET /
read_root(p) ==
    /\ pc[p] = "serving"
    /\ resp' = [ep |-> "read_root", p |-> p, status |-> 200,
                body |-> [message |-> "Jefferson Bar & Grill API running"]]
    /\ UNCHANGED <<store, storeUp, db, pc, col, idx, seen, seedExit>>

\* db.list_collection_names(): the collections that hold documents
list_collection_names(st) ==
    Pick(CollectionOrder, {i \in DOMAIN CollectionOrder : st[CollectionOrder[i]] # << >>}, 1)

\* the status dict test_database returns; url and name tell whether
\* DATABASE_URL and DATABASE_NAME are set
test_database_status_OuterExcept(handle, up, st, url, name) ==
    LET status == [backend |-> "Running", database |-> "Not Available",
                   database_url |-> "Not Set", database_name |-> "Not Set",
                   collections |-> << >>]
    IN  IF handle
          THEN LET connected ==
                       [status EXCEPT !.database = "Connected",
                                      !.database_url = IF url THEN "Set" ELSE "Not Set",
                                      !.database_name = IF name THEN "Set" ELSE "Not Set"]
               IN  IF up
                     THEN [connected EXCEPT !.collections = list_collection_names(st)]
                     ELSE [connected EXCEPT !.database = "Error: ServerSelectionTimeout"]
          ELSE [status EXCEPT !.database = "Not Initialized"]

test_database_status(handle, up, st, url, name) ==
    LET status == [backend |-> "Running", database |-> "Not Available",
                   database_url |-> "Not Set", database_name |-> "Not Set",
                   collections |-> << >>]
    IN  IF handle
          THEN LET connected ==
                       [status EXCEPT !.database = "Connected",
                                      !.database_url = IF url THEN "Set" ELSE "Not Set",
                                      !.database_name = IF name THEN "Set" ELSE "Not Set"]
               IN  IF up
                     THEN [connected EXCEPT !.collections = list_collection_names(st)]
                     ELSE [connected EXCEPT !.database =
                              "Connected but error listing collections: ServerSelectionTimeout"]
          ELSE [status EXCEPT !.database = "Not Initialized"]

\* GET /test
test_database(p) ==
    /\ pc[p] = "serving"
    /\ \E url \in BOOLEAN, name \in BOOLEAN :
          resp' = [ep |-> "test_database", p |-> p,
                   req |-> [DATABASE_URL |-> url, DATABASE_NAME |-> name],
                   status |-> 200,
                   body |-> test_database_status(db[p], storeUp, store, url, name)]
    /\ UNCHANGED <<store, storeUp, db, pc, col, idx, seen, seedExit>>

\* default values of the limit parameters
TestimonialsLimit == 10
MenuLimit == 50
EventsLimit == 20
GalleryLimit == 20

Limits(default) == (1 .. MaxLimit) \cup {default}
MenuCategories == {None, "", "Cocktails"}
GalleryCategories == {None, "", "holiday"}

EmptyQuery == [f \in {} |-> None]

\* the truth value Python gives an Optional[str]
Truthy(v) == v # None /\ v # ""

\* d.pop("_id", None)
StripId_Keep(d) == d
StripId(d) == [f \in DOMAIN d \ {"_id"} |-> d[f]]

StripIds(docs) == [i \in DOMAIN docs |-> StripId(docs[i])]

\* query = {"category": category} if category else {}
MenuQuery(category) == IF Truthy(category) THEN [category |-> category] ELSE EmptyQuery
GalleryQuery(category) == IF Truthy(category) THEN [category |-> category] ELSE EmptyQuery

\* query = {"is_holiday_special": True} if holiday_only else {}
EventsQuery_NoFilter(holiday_only) == EmptyQuery
EventsQuery(holiday_only) ==
    IF holiday_only THEN [is_holiday_special |-> TRUE] ELSE EmptyQuery

\* the shape the four read handlers share: get_documents, pop "_id", return;
\* a failing store call is not caught and leaves as an internal server error
ListDocuments(p, ep, c, req, query, limit) ==
    /\ pc[p] = "serving"
    /\ IF ~db[p] \/ ~storeUp
         THEN resp' = [ep |-> ep, p |-> p, req |-> req, query |-> query,
                       status |-> 500, body |-> << >>]
         ELSE \E docs \in get_documents(store, c, query, limit) :
                 resp' = [ep |-> ep, p |-> p, req |-> req, query |-> query,
                          status |-> 200, body |-> StripIds(docs)]
    /\ UNCHANGED <<store, storeUp, db, pc, col, idx, seen, seedExit>>

\* GET /api/testimonials
list_testimonials(p, limit) ==
    ListDocuments(p, "list_testimonials", "testimonial", [limit |-> limit],
                  EmptyQuery, limit)

\* GET /api/menu
list_menu(p, category, limit) ==
    ListDocuments(p, "list_menu", "menuitem", [category |-> category, limit |-> limit],
                  MenuQuery(category), limit)

\* GET /api/events
list_events(p, holiday_only, limit) ==
    ListDocuments(p, "list_events", "event",
                  [holiday_only |-> holiday_only, limit |-> limit],
                  EventsQuery(holiday_only), limit)

\* GET /api/gallery
list_gallery(p, category, limit) ==
    ListDocuments(p, "list_gallery", "galleryitem",
                  [category |-> category, limit |-> limit],
                  GalleryQuery(category), limit)

(***************************************************************************)
(* POST /api/inquiry.                                                      *)
(***************************************************************************)
\* the characters of the e-mail strings requests carry
Chars(e) ==
    CASE e = "a@b.co" -> <<"a", "@", "b", ".", "c", "o">>
      [] e = "not-an-email" -> <<"n", "o", "t", "-", "a", "n", "-", "e", "m", "a", "i", "l">>
      [] e = "a@" -> <<"a", "@">>
      [] e = "@b.co" -> <<"@", "b", ".", "c", "o">>
      [] e = "a@b" -> <<"a", "@", "b">>
      [] e = "a@@b.co" -> <<"a", "@", "@", "b", ".", "c", "o">>

Emails == {"a@b.co", "not-an-email", "a@", "@b.co", "a@b", "a@@b.co"}

\* no dot first or last, no two dots in a row
DotsWellPlaced(s) ==
    /\ s # << >>
    /\ s[1] # "." /\ s[Len(s)] # "."
    /\ \A i \in 1 .. Len(s) - 1 : ~(s[i] = "." /\ s[i + 1] = ".")

\* EmailStr: one "@", a local part before it, a dotted domain after it
IsEmail(s) ==
    LET ats == {i \in DOMAIN s : s[i] = "@"}
    IN  /\ Cardinality(ats) = 1
        /\ LET at == CHOOSE i \in ats : TRUE
               localPart == SubSeq(s, 1, at - 1)
               domainPart == SubSeq(s, at + 1, Len(s))
           IN  /\ DotsWellPlaced(localPart)
               /\ DotsWellPlaced(domainPart)
               /\ \E i \in DOMAIN domainPart : domainPart[i] = "."

\* the JSON bodies requests carry: each field present or not
Body(n, e, m, ph) ==
    LET v == [name |-> n, email |-> e, message |-> m, phone |-> ph]
    IN  [f \in {g \in DOMAIN v : v[g] # Absent} |-> v[f]]

Payloads ==
    {Body("Ann", e, "Table for six?", Absent) : e \in Emails \cup {Absent}}
      \cup {Body("Ann", "not-an-email", "Table for six?", "555-0100"),
            Body(Absent, "a@b.co", "Table for six?", "555-0100"),
            Body("Ann", "a@b.co", Absent, Absent)}

\* class InquiryIn(BaseModel): name, email and message required, phone optional
InquiryIn_AnyEmail(payload) ==
    {"name", "email", "message"} \subseteq DOMAIN payload
InquiryIn(payload) ==
    /\ {"name", "email", "message"} \subseteq DOMAIN payload
    /\ IsEmail(Chars(payload.email))

\* payload.model_dump(): the declared fields of InquiryIn, phone None by default
model_dump(payload) ==
    [name |-> payload.name, email |-> payload.email, message |-> payload.message,
     phone |-> IF "phone" \in DOMAIN payload THEN payload.phone ELSE None]

\* try: create_document(...); return {"ok": True, ...}
\* except Exception as e: raise HTTPException(status_code=500, detail=str(e))
inquiry_response_AlwaysOk(r) ==
    [status |-> 200, body |-> [ok |-> TRUE, message |-> "Thanks! We'll be in touch soon."]]
inquiry_response(r) ==
    IF r.ok
      THEN [status |-> 200,
            body |-> [ok |-> TRUE, message |-> "Thanks! We'll be in touch soon."]]
      ELSE [status |-> 500, body |-> [detail |-> r.err]]

\* a body that does not validate as InquiryIn is answered 422 by the framework
\* and create_inquiry is not called
create_inquiry(p, payload) ==
    /\ pc[p] = "serving"
    /\ Len(store["inquiry"]) < MaxInquiries
    /\ IF ~InquiryIn(payload)
         THEN /\ resp' = [ep |-> "create_inquiry", p |-> p, req |-> payload,
                          storeCalls |-> 0, status |-> 422,
                          body |-> [detail |-> "validation error"]]
              /\ UNCHANGED store
         ELSE LET r == create_document(db[p], storeUp, store, "inquiry", model_dump(payload))
                  out == inquiry_response(r)
              IN  /\ store' = r.store
                  /\ resp' = [ep |-> "create_inquiry", p |-> p, req |-> payload,
                              storeCalls |-> 1, status |-> out.status, body |-> out.body]
    /\ UNCHANGED <<storeUp, db, pc, col, idx, seen, seedExit>>

(***************************************************************************)
(* Specifications.                                                         *)
(***************************************************************************)
\* the store starts empty, or with externally created content in some or all
\* of the content collections
InitStore ==
    \E E \in {{}, {"menuitem", "event"}, ContentCollections} :
        store = [c \in Collections |-> IF c \in E THEN ExternalDocs(c) ELSE << >>]

InitWith(instances) ==
    /\ InitStore
    /\ storeUp \in BOOLEAN
    /\ db = [p \in Procs |-> FALSE]
    /\ pc = [p \in Procs |-> IF p \in instances THEN "boot" ELSE "off"]
    /\ col = [p \in Procs |-> 0]
    /\ idx = [p \in Procs |-> 0]
    /\ seen = [p \in Procs |-> NoCounts]
    /\ seedExit = [p \in Procs |-> "none"]
    /\ resp = NoResp

Init == InitWith(SeqInstances)
InitConc == InitWith(ConcInstances)

Next ==
    \/ StoreOutage
    \/ StoreRecover
    \/ \E p \in Procs : Boot(p)
    \/ \E p \in Procs : SeedBegin(p)
    \/ \E p \in Procs : SeedCheck(p)
    \/ \E p \in Procs : SeedInsert(p)
    \/ \E p \in Procs : SeedExcept(p)
    \/ \E p \in Procs : SeedReturn(p)
    \/ \E p \in Procs : Restart(p)
    \/ \E p \in Procs : read_root(p)
    \/ \E p \in Procs : test_database(p)
    \/ \E p \in Procs, limit \in Limits(TestimonialsLimit) : list_testimonials(p, limit)
    \/ \E p \in Procs, category \in MenuCategories, limit \in Limits(MenuLimit) :
          list_menu(p, category, limit)
    \/ \E p \in Procs, holiday_only \in BOOLEAN, limit \in Limits(EventsLimit) :
          list_events(p, holiday_only, limit)
    \/ \E p \in Procs, category \in GalleryCategories, limit \in Limits(GalleryLimit) :
          list_gallery(p, category, limit)
    \/ \E p \in Procs, payload \in Payloads : create_inquiry(p, payload)

\* one process, restarted any number of times
Spec == Init /\ [][Next]_vars

\* several process instances start (and restart) against the same store, which
\* stays answering or not answering as it began; only the import of main.py,
\* which calls seed_default_content, is followed
NextStartup ==
    \/ \E p \in Procs : Boot(p)
    \/ \E p \in Procs : SeedBegin(p)
    \/ \E p \in Procs : SeedCheck(p)
    \/ \E p \in Procs : SeedInsert(p)
    \/ \E p \in Procs : SeedExcept(p)
    \/ \E p \in Procs : SeedReturn(p)
    \/ \E p \in Procs : Restart(p)

SpecConc == InitConc /\ [][NextStartup]_vars

(***************************************************************************)
(* Properties.                                                             *)
(***************************************************************************)
\* the step is the handling of a request by endpoint ep
Handled(ep) ==
    /\ resp'.ep = ep
    /\ resp' # resp \/ store' # store

\* a request body with every required field and a well-formed address
WellFormedEmails == {"a@b.co"}
WellFormedInquiry(req) ==
    /\ {"name", "email", "message"} \subseteq DOMAIN req
    /\ req.email \in WellFormedEmails

\* a stored document without the identifier the store gave it
WithoutId(d) == [f \in DOMAIN d \ {"_id"} |-> d[f]]

LastDoc(c) == store'[c][Len(store'[c])]

\* C1: every valid inquiry submitted while the store accepts writes is
\* answered ok = true, adds exactly one document to inquiry, changes no other
\* collection, and the stored document's source is "website".
C1_InquiryStoredFromWebsite ==
    [][(Handled("create_inquiry") /\ WellFormedInquiry(resp'.req)
          /\ db[resp'.p] /\ storeUp)
        => /\ resp'.status = 200
           /\ resp'.body.ok = TRUE
           /\ Len(store'["inquiry"]) = Len(store["inquiry"]) + 1
           /\ \A c \in ContentCollections : store'[c] = store[c]
           /\ "source" \in DOMAIN LastDoc("inquiry")
           /\ LastDoc("inquiry").source = "website"]_vars

\* C2: an inquiry whose e-mail is not a well-formed address, or that lacks
\* a required field, is answered with a client error, no insert is attempted
\* and no collection changes.
C2_InvalidInquiryRejected ==
    [][(Handled("create_inquiry") /\ ~WellFormedInquiry(resp'.req))
        => /\ resp'.status \in 400 .. 499
           /\ resp'.storeCalls = 0
           /\ store' = store]_vars

C2_Witness ==
    /\ resp.ep = "create_inquiry"
    /\ "email" \in DOMAIN resp.req
    /\ resp.req.email = "not-an-email"
    /\ resp.status = 422

\* the collection holds exactly as many documents as its seed list
HoldsSeedCount(i) == Len(store[SeedOrder[i]]) = Len(SeedDocs(SeedOrder[i]))

\* a run leaves alone every collection it found non-empty
NonEmptyUntouched ==
    \A p \in Procs, i \in DOMAIN SeedOrder :
        (seen[p][i] = "nonempty" /\ seen'[p][i] = "nonempty")
            => Len(store'[SeedOrder[i]]) = Len(store[SeedOrder[i]])

C4_SeedNeverPropagates ==
    \A p \in Procs :
        /\ pc[p] \in {"off", "boot", "seed", "except", "seed_end", "serving"}
        /\ seedExit[p] = "swallowed" => pc[p] \in {"except", "serving"}

C4_Witness ==
    \E p \in Procs :
        /\ pc[p] = "serving"
        /\ seedExit[p] = "swallowed"
        /\ store["testimonial"] # << >>
        /\ store["menuitem"] = << >>

\* C5: whenever list_menu or list_gallery is given a category, the empty
\* string included, find is called with {category: value} and every record
\* returned has that category.
C5_CategoryAlwaysFilters ==
    (resp.ep \in {"list_menu", "list_gallery"} /\ resp.req.category # None)
        => /\ resp.query = [category |-> resp.req.category]
           /\ \A i \in DOMAIN resp.body :
                 /\ "category" \in DOMAIN resp.body[i]
                 /\ resp.body[i].category = resp.req.category

IsHoliday(d) == "is_holiday_special" \in DOMAIN d /\ d.is_holiday_special = TRUE

\* C6: list_events with holiday_only returns only holiday specials, and all
\* of them up to the limit; without it, events of either kind, up to the limit.
C6_HolidayOnlyFilters ==
    [][(Handled("list_events") /\ resp'.status = 200)
        => LET body == resp'.body
               ev == store["event"]
               limit == resp'.req.limit
           IN  IF resp'.req.holiday_only
                 THEN /\ \A i \in DOMAIN body : IsHoliday(body[i])
                      /\ Len(body) =
                            Min(limit, Cardinality({j \in DOMAIN ev : IsHoliday(ev[j])}))
                 ELSE /\ Len(body) = Min(limit, Len(ev))
                      /\ \A i \in DOMAIN body :
                            \E j \in DOMAIN ev : body[i] = WithoutId(ev[j])]_vars

C6_Witness ==
    /\ resp.ep = "list_events"
    /\ resp.status = 200
    /\ resp.req.holiday_only
    /\ resp.req.limit > 1
    /\ Len(resp.body) = 1
    /\ Len(store["event"]) = 2

ListedCollection(ep) ==
    CASE ep = "list_testimonials" -> "testimonial"
      [] ep = "list_menu" -> "menuitem"
      [] ep = "list_events" -> "event"
      [] ep = "list_gallery" -> "galleryitem"

ReadEndpoints == {"list_testimonials", "list_menu", "list_events", "list_gallery"}

NotConnectedReports == {"Not Available", "Not Initialized"}

\* the store cannot be reached from the process that answered
Unreachable(p) == ~db[p] \/ ~storeUp

\* C8 as stated: test_database always returns its status object, and when
\* the store is unreachable (no handle, or listing the collections fails) the
\* database field reports a not-connected state and collections is empty.
C8_DiagnosticReportsNotConnected ==
    [][Handled("test_database")
        => /\ resp'.status = 200
           /\ Unreachable(resp'.p)
                 => /\ resp'.body.database \in NotConnectedReports
                    /\ resp'.body.collections = << >>]_vars

\* C8 amended: test_database always returns its status object; without a
\* handle the database field reports "Not Initialized"; with a handle whose
\* listing fails it reports "Connected but error listing collections: ...",
\* a connected state; in both cases collections is empty.
C8_DiagnosticDegrades ==
    [][Handled("test_database")
        => /\ resp'.status = 200
           /\ ~db[resp'.p]
                 => /\ resp'.body.database = "Not Initialized"
                    /\ resp'.body.collections = << >>
           /\ (db[resp'.p] /\ ~storeUp)
                 => /\ resp'.body.database =
                          "Connected but error listing collections: ServerSelectionTimeout"
                    /\ resp'.body.collections = << >>
           /\ (db[resp'.p] /\ storeUp) => resp'.body.database = "Connected"]_vars

C8_Witness ==
    /\ resp.ep = "test_database"
    /\ db[resp.p]
    /\ ~storeUp
    /\ resp.body.database = "Connected but error listing collections: ServerSelectionTimeout"
    /\ resp.body.collections = << >>

\* C9: when the insert of a valid inquiry fails (no handle, or the write is
\* rejected) the answer is status 500 carrying the failure's description, not
\* the acknowledgement, and the inquiry collection gains nothing.
C9_FailedInsertIsServerError ==
    [][(Handled("create_inquiry") /\ WellFormedInquiry(resp'.req) /\ Unreachable(resp'.p))
        => /\ resp'.status = 500
           /\ "ok" \notin DOMAIN resp'.body
           /\ resp'.body.detail = IF db[resp'.p] THEN "WriteFailure" ELSE "StoreUnavailable"
           /\ store' = store]_vars

C9_Witness ==
    /\ resp.ep = "create_inquiry"
    /\ resp.status = 500
    /\ resp.body.detail = "WriteFailure"
    /\ store["inquiry"] = << >>

\* the copies of seed document k of collection c that the store holds
SeedCopies(c, k) ==
    {j \in DOMAIN store[c] : WithoutId(store[c][j]) = SeedDocs(c)[k]}

\* C10: whatever runs of seed_default_content took place against the store,
\* interleaved runs of several instances included, no content collection
\* holds more than one copy of any seed document.
C10_NoSeedDuplicated ==
    \A c \in ContentCollections :
        \A k \in DOMAIN SeedDocs(c) : Cardinality(SeedCopies(c, k)) <= 1

====
